---- MODULE Spec2Model ----
(***************************************************************************)
(* Model of crosshair/enforce.py: the EnforcedConditions scope, which      *)
(* installs and removes contract wrappers in caller-supplied environments, *)
(* and the EnforcementWrapper call protocol with its reentrancy guard.     *)
(*                                                                         *)
(* Objects live in `heap`, a sequence of records; an object's identity is  *)
(* its index in the heap (what Python's id() and `is` observe).            *)
(***************************************************************************)
EXTENDS Integers, Sequences, FiniteSets, TLC

VARIABLES
  heap,           \* all live objects, indexed by identity
  class_attrs,    \* class id -> (attribute name -> object id): the class __dict__
  envs,           \* self.envs: sequence of dicts (key -> object id)
  wrapper_map,    \* self.wrapper_map: original callable -> wrapper
  original_map,   \* self.original_map: IdentityWrapper(wrapper) -> original
  fns_enforcing,  \* self.fns_enforcing: the reentrancy guard
  stacks,         \* per thread: the stack of in-flight wrapper calls
  last,           \* per thread: what the outermost call that finished last gave its caller
  phase,          \* "fresh", "active" (after __enter__), "enter_failed" and
                  \* "active_enter_failed" (a failure left __enter__, the scope
                  \* being inactive or active before), and after __exit__:
                  \* "inactive" (the block ended normally), "failed" (a failure
                  \* left the with statement), "suppressed" (it was swallowed)
  envs_pre,       \* the environments as they were when the scope was activated
  heap_pre        \* the heap size when the scope was activated

vars == <<heap, class_attrs, envs, wrapper_map, original_map, fns_enforcing,
          stacks, last, phase, envs_pre, heap_pre>>

-----------------------------------------------------------------------------
(* Bounds *)

\* Most objects the heap may hold (every activation and deactivation of a
\* type-dispatching callable allocates a new dispatcher).
MaxHeap == 13

\* Deepest nesting of wrapper calls on one thread.
MaxDepth == 2

-----------------------------------------------------------------------------
(* The Condition Provider (crosshair.condition_parser) and the objects      *)

\* A Conditions bundle with no condition at all.
NoConditions ==
  [pre |-> <<>>, post |-> <<>>, mutable_args |-> {}, params |-> {},
   defaults |-> <<>>]

\* Conditions.has_any(): at least one precondition or postcondition.
has_any(conditions) == Len(conditions.pre) + Len(conditions.post) > 0

Function(conditions) ==
  [kind |-> "function", registry |-> <<>>, wraps |-> 0, conds |-> conditions]

\* functools.singledispatch object: a function that carries a registry
\* (ordered table type -> implementation, `object` first).
Dispatcher(reg) ==
  [kind |-> "function", registry |-> reg, wraps |-> 0, conds |-> NoConditions]

Class == [kind |-> "type", registry |-> <<>>, wraps |-> 0, conds |-> NoConditions]

Value == [kind |-> "value", registry |-> <<>>, wraps |-> 0, conds |-> NoConditions]

\* The objects that exist before the scope is built (params are the
\* parameters of the signature, defaults the values of those that have one):
\*   1 half : pre p1, p2; post q1            2 push : post q2, mutable arg x
\*   3 plain: no conditions                  4 bad  : mutable arg not a parameter
\*   5 dispatcher {object: plain, int: half} 6 dispatcher {object: plain, str: plain}
\*   7 class with methods m = push, n = plain
\*   8 a value that is not callable
OrigHeap == <<
  Function([pre |-> <<"p1", "p2">>, post |-> <<"q1">>, mutable_args |-> {},
            params |-> {"x", "y"}, defaults |-> [p \in {"y"} |-> 0]]),
  Function([pre |-> <<>>, post |-> <<"q2">>, mutable_args |-> {"x"},
            params |-> {"x"}, defaults |-> <<>>]),
  Function(NoConditions),
  Function([pre |-> <<"p3">>, post |-> <<>>, mutable_args |-> {"zz"},
            params |-> {"x"}, defaults |-> <<>>]),
  Dispatcher(<< <<"object", 3>>, <<"int", 1>> >>),
  Dispatcher(<< <<"object", 3>>, <<"str", 3>> >>),
  Class,
  Value >>

OrigClassAttrs == [c \in {7} |-> [n \in {"m", "n"} |-> IF n = "m" THEN 2 ELSE 3]]

\* get_fn_conditions(fn): the Conditions the provider derives for a callable.
get_fn_conditions(h, fn) == h[fn].conds

\* Keys of a Python dict, tagged by the type of the key object: a str and a
\* function never compare equal.
StrKey(s) == [tag |-> "str", name |-> s, id |-> 0]
ObjKey(o) == [tag |-> "object", name |-> "", id |-> o]

\* get_class_conditions(cls).methods: method name -> Conditions, for the
\* methods of the class that declare conditions.
get_class_conditions(h, attrs, cls) ==
  { <<StrKey(n), h[attrs[cls][n]].conds>> :
      n \in { m \in DOMAIN attrs[cls] : has_any(h[attrs[cls][m]].conds) } }

\* The Condition Provider fails (raises) when asked for the conditions of v.
provider_fails(st, v) == v \in st.failing

\* The state of a method call out of which a failure is propagating.
Raise(st) == [st EXCEPT !.raised = TRUE]

\* ClassConditions.has_any()
class_has_any(methods) == methods # {}

\* dict.get(key): <<>> is None, <<v>> is the value found.
DictGet(pairs, key) ==
  IF \E p \in pairs : p[1] = key
  THEN <<(CHOOSE p \in pairs : p[1] = key)[2]>>
  ELSE <<>>

-----------------------------------------------------------------------------
(* Helpers of the scope.  `st` is the part of the state the scope's methods *)
(* read and write: [heap, class_attrs, wrapper_map, original_map], with     *)
(* `failing`, the objects for which the Condition Provider fails during     *)
(* this call, and `raised`, set once a failure is propagating out of it.    *)

\* IdentityWrapper(o): hashes and compares by id(o).
IdentityWrapper(o) == o

is_singledispatcher(h, fn) == h[fn].registry # <<>>

\* isinstance(v, (types.FunctionType, types.BuiltinFunctionType))
is_function(h, v) == h[v].kind = "function"

\* isinstance(v, type)
is_type(h, v) == h[v].kind = "type"

is_enforcement_wrapper(st, value) ==
  IdentityWrapper(value) \in DOMAIN st.original_map

\* self.interceptor: the default, lambda x: x
interceptor(fn) == fn

\* EnforcementWrapper(fn, conditions, fns_enforcing): a new function object
\* closing over fn and conditions (functools.update_wrapper copies the
\* original's metadata).
EnforcementWrapper(fn, conditions) ==
  [kind |-> "function", registry |-> <<>>, wraps |-> fn, conds |-> conditions]

\* d[k] = v on a dict modelled as a function
DictSet(d, k, v) == [x \in DOMAIN d \cup {k} |-> IF x = k THEN v ELSE d[x]]

-----------------------------------------------------------------------------
(* EnforcedConditions: wrapping and unwrapping                              *)

\* _wrap_fn without the wrapper cache: a new wrapper on every call.
_wrap_fn_uncached(st, fn, conditions) ==
  LET c == IF conditions # <<>> THEN conditions[1]
           ELSE get_fn_conditions(st.heap, fn)
      new == Len(st.heap) + 1
  IN IF is_enforcement_wrapper(st, fn)
     THEN [st |-> st, ret |-> fn]
     ELSE IF conditions = <<>> /\ provider_fails(st, fn)
     THEN [st |-> Raise(st), ret |-> 0]
     ELSE IF has_any(c)
     THEN [st |-> [st EXCEPT
                     !.heap = Append(@, EnforcementWrapper(interceptor(fn), c)),
                     !.wrapper_map = DictSet(@, fn, new),
                     !.original_map = DictSet(@, IdentityWrapper(new), fn)],
           ret |-> new]
     ELSE [st |-> [st EXCEPT
                     !.wrapper_map = DictSet(@, fn, fn),
                     !.original_map = DictSet(@, IdentityWrapper(fn), fn)],
           ret |-> fn]

\* _wrap_fn that builds a wrapper whether or not there are conditions.
_wrap_fn_always(st, fn, conditions) ==
  LET c == IF conditions # <<>> THEN conditions[1]
           ELSE get_fn_conditions(st.heap, fn)
      new == Len(st.heap) + 1
  IN IF fn \in DOMAIN st.wrapper_map
     THEN [st |-> st, ret |-> st.wrapper_map[fn]]
     ELSE IF is_enforcement_wrapper(st, fn)
     THEN [st |-> st, ret |-> fn]
     ELSE IF conditions = <<>> /\ provider_fails(st, fn)
     THEN [st |-> Raise(st), ret |-> 0]
     ELSE [st |-> [st EXCEPT
                     !.heap = Append(@, EnforcementWrapper(interceptor(fn), c)),
                     !.wrapper_map = DictSet(@, fn, new),
                     !.original_map = DictSet(@, IdentityWrapper(new), fn)],
           ret |-> new]

\* _wrap_fn(fn, conditions): <<>> stands for conditions=None.
\* Returns the new scope state and the value returned (0 when a failure of
\* get_fn_conditions propagates instead).
_wrap_fn(st, fn, conditions) ==
  IF fn \in DOMAIN st.wrapper_map
  THEN [st |-> st, ret |-> st.wrapper_map[fn]]
  ELSE IF is_enforcement_wrapper(st, fn)
  THEN [st |-> st, ret |-> fn]
  ELSE IF conditions = <<>> /\ provider_fails(st, fn)
  THEN [st |-> Raise(st), ret |-> 0]
  ELSE
    LET c == IF conditions # <<>> THEN conditions[1]
             ELSE get_fn_conditions(st.heap, fn)
        new == Len(st.heap) + 1
        wrapper == IF has_any(c) THEN new ELSE fn
        h == IF has_any(c)
             THEN Append(st.heap, EnforcementWrapper(interceptor(fn), c))
             ELSE st.heap
    IN [st |-> [st EXCEPT
                  !.heap = h,
                  !.wrapper_map = DictSet(@, fn, wrapper),
                  !.original_map = DictSet(@, IdentityWrapper(wrapper), fn)],
        ret |-> wrapper]

\* Attribute names in the order inspect.getmembers lists them (sorted).
MethodNames == <<"m", "n">>

\* list(inspect.getmembers(cls, inspect.isfunction)): <<name, function>> pairs
RECURSIVE getmembers(_, _, _)
getmembers(st, cls, names) ==
  IF names = <<>> THEN <<>>
  ELSE LET n == Head(names)
           rest == getmembers(st, cls, Tail(names))
       IN IF n \in DOMAIN st.class_attrs[cls]
             /\ is_function(st.heap, st.class_attrs[cls][n])
          THEN <<<<n, st.class_attrs[cls][n]>>>> \o rest
          ELSE rest

\* setattr(cls, name, value)
setattr(st, cls, name, value) ==
  [st EXCEPT !.class_attrs[cls] = DictSet(@, name, value)]

\* The loop of _wrap_class over the members listed before it started.
RECURSIVE wrap_members(_, _, _, _)
wrap_members(st, cls, method_conditions, members) ==
  IF members = <<>> THEN st
  ELSE LET method_name == Head(members)[1]
           method == Head(members)[2]
           conditions == DictGet(method_conditions, ObjKey(method))
       IN IF conditions = <<>>
          THEN wrap_members(st, cls, method_conditions, Tail(members))
          ELSE LET r == _wrap_fn(st, method, conditions)
               IN wrap_members(setattr(r.st, cls, method_name, r.ret), cls,
                               method_conditions, Tail(members))

_wrap_class(st, cls, class_conditions) ==
  wrap_members(st, cls, class_conditions, getmembers(st, cls, MethodNames))

RECURSIVE unwrap_members(_, _, _)
unwrap_members(st, cls, members) ==
  IF members = <<>> THEN st
  ELSE LET method_name == Head(members)[1]
           method == Head(members)[2]
       IN IF is_enforcement_wrapper(st, method)
          THEN unwrap_members(
                 setattr(st, cls, method_name,
                         st.original_map[IdentityWrapper(method)]),
                 cls, Tail(members))
          ELSE unwrap_members(st, cls, Tail(members))

_unwrap_class(st, cls) ==
  unwrap_members(st, cls, getmembers(st, cls, MethodNames))

RECURSIVE _unwrap(_, _)
RECURSIVE _transform_singledispatch(_, _, _)
RECURSIVE register_overloads(_, _, _, _)

\* transformer(fn), for the two transformers the scope passes:
\* self._wrap_fn and self._unwrap.
transformer_call(st, transformer, fn) ==
  IF transformer = "_wrap_fn" THEN _wrap_fn(st, fn, <<>>) ELSE _unwrap(st, fn)

\* register_overloads that registers the implementations as they are.
RECURSIVE register_overloads_raw(_, _, _, _)
register_overloads_raw(st, wrapped, overloads, transformer) ==
  IF overloads = <<>> THEN st
  ELSE register_overloads_raw(
         [st EXCEPT !.heap[wrapped].registry = Append(@, Head(overloads))],
         wrapped, Tail(overloads), transformer)

\* for overload_typ, overload_fn in overloads[1:]:
\*     wrapped.register(overload_typ)(transformer(overload_fn))
register_overloads(st, wrapped, overloads, transformer) ==
  IF overloads = <<>> THEN st
  ELSE LET r == transformer_call(st, transformer, Head(overloads)[2])
           h == [r.st.heap EXCEPT ![wrapped].registry =
                   Append(@, <<Head(overloads)[1], r.ret>>)]
       IN IF r.st.raised THEN r.st
          ELSE register_overloads([r.st EXCEPT !.heap = h], wrapped,
                                  Tail(overloads), transformer)

\* A new dispatcher whose implementations are the transformed ones.
_transform_singledispatch(st, fn, transformer) ==
  LET overloads == st.heap[fn].registry
      r == transformer_call(st, transformer, overloads[1][2])
      wrapped == Len(r.st.heap) + 1
      st1 == [r.st EXCEPT !.heap = Append(@, Dispatcher(<< <<"object", r.ret>> >>))]
  IN IF r.st.raised THEN [st |-> r.st, ret |-> 0]
     ELSE [st |-> register_overloads(st1, wrapped, Tail(overloads), transformer),
           ret |-> wrapped]

\* Types of first arguments; all are direct subclasses of `object`.
ArgTypes == {"int", "str", "list"}

\* The implementation a functools.singledispatch object with table `reg`
\* (type `object` first) runs for a first argument of type typ.
dispatch(reg, typ) ==
  IF \E j \in DOMAIN reg : reg[j][1] = typ
  THEN reg[CHOOSE j \in DOMAIN reg : reg[j][1] = typ][2]
  ELSE reg[1][2]

_unwrap(st, value) ==
  IF is_enforcement_wrapper(st, value)
  THEN [st |-> st, ret |-> st.original_map[IdentityWrapper(value)]]
  ELSE IF is_singledispatcher(st.heap, value)
  THEN _transform_singledispatch(st, value, "_unwrap")
  ELSE IF is_type(st.heap, value)
  THEN [st |-> _unwrap_class(st, value), ret |-> value]
  ELSE [st |-> st, ret |-> value]

-----------------------------------------------------------------------------
(* EnforcedConditions.__enter__ and __exit__                                *)

\* Keys in the order the dicts list them.
KeyOrder == <<"a", "b", "c">>

\* The (environment index, key) pairs in the order the nested loops visit them.
RECURSIVE env_items(_, _, _)
env_items(es, i, keys) ==
  IF i > Len(es) THEN <<>>
  ELSE IF keys = <<>> THEN env_items(es, i + 1, KeyOrder)
  ELSE IF Head(keys) \in DOMAIN es[i]
       THEN <<<<i, Head(keys)>>>> \o env_items(es, i, Tail(keys))
       ELSE env_items(es, i, Tail(keys))

\* The first loop of __enter__: computes next_envs, patches classes in place.
\* A failure of the Condition Provider ends it at once.
RECURSIVE enter_loop(_, _, _, _)
enter_loop(st, es, next_envs, items) ==
  IF items = <<>> THEN [st |-> st, next_envs |-> next_envs]
  ELSE
    LET i == Head(items)[1]
        k == Head(items)[2]
        v == es[i][k]
    IN IF is_function(st.heap, v)
       THEN IF is_singledispatcher(st.heap, v)
            THEN LET r == _transform_singledispatch(st, v, "_wrap_fn")
                 IN IF r.st.raised
                    THEN [st |-> r.st, next_envs |-> next_envs]
                    ELSE enter_loop(r.st, es,
                                    [next_envs EXCEPT ![i] = DictSet(@, k, r.ret)],
                                    Tail(items))
            ELSE LET r == _wrap_fn(st, v, <<>>)
                 IN IF r.st.raised
                    THEN [st |-> r.st, next_envs |-> next_envs]
                    ELSE IF r.ret = v
                    THEN enter_loop(r.st, es, next_envs, Tail(items))
                    ELSE enter_loop(r.st, es,
                                    [next_envs EXCEPT ![i] = DictSet(@, k, r.ret)],
                                    Tail(items))
       ELSE IF is_type(st.heap, v)
       THEN IF provider_fails(st, v)
            THEN [st |-> Raise(st), next_envs |-> next_envs]
            ELSE
            LET conditions == get_class_conditions(st.heap, st.class_attrs, v)
            IN IF class_has_any(conditions)
               THEN enter_loop(_wrap_class(st, v, conditions), es, next_envs,
                               Tail(items))
               ELSE enter_loop(st, es, next_envs, Tail(items))
       ELSE enter_loop(st, es, next_envs, Tail(items))

\* env.update(next_env) for every environment
update_envs(es, next_envs) ==
  [i \in DOMAIN es |->
     [k \in DOMAIN es[i] \cup DOMAIN next_envs[i] |->
        IF k \in DOMAIN next_envs[i] THEN next_envs[i][k] ELSE es[i][k]]]

\* __enter__ that binds each wrapper in the environment as soon as it has
\* computed it.
__enter___eager(st, es) ==
  LET r == enter_loop(st, es, es, env_items(es, 1, KeyOrder))
  IN [st |-> r.st, envs |-> update_envs(es, r.next_envs)]

\* The second loop is reached only when the first one has ended normally.
__enter__(st, es) ==
  LET r == enter_loop(st, es, es, env_items(es, 1, KeyOrder))
  IN [st |-> r.st,
      envs |-> IF r.st.raised THEN es ELSE update_envs(es, r.next_envs)]

\* The first loop of __exit__.
RECURSIVE exit_loop(_, _, _, _)
exit_loop(st, es, next_envs, items) ==
  IF items = <<>> THEN [st |-> st, next_envs |-> next_envs]
  ELSE
    LET i == Head(items)[1]
        k == Head(items)[2]
        r == _unwrap(st, es[i][k])
    IN exit_loop(r.st, es, [next_envs EXCEPT ![i] = DictSet(@, k, r.ret)],
                 Tail(items))

\* __exit__(exc_type, exc_val, exc_tb): exc_type is "None" when the with
\* block ended normally.  ret is the value returned: a true value would
\* make the with statement swallow the failure.
__exit__(st, es, exc_type) ==
  LET r == exit_loop(st, es, es, env_items(es, 1, KeyOrder))
  IN [st |-> r.st, envs |-> update_envs(es, r.next_envs), ret |-> FALSE]

-----------------------------------------------------------------------------
(* The state machine                                                        *)

Threads == {"t1", "t2", "t3"}

ScopeState ==
  [heap |-> heap, class_attrs |-> class_attrs,
   wrapper_map |-> wrapper_map, original_map |-> original_map,
   failing |-> {}, raised |-> FALSE]

Idle == \A t \in Threads : stacks[t] = <<>>

\* No failure is propagating.
NoExc == [kind |-> "none", at |-> "none", depth |-> 0]

\* What the call that finished last on a thread gave its caller.
NoOutcome == [kind |-> "none", w |-> 0, ret |-> -1, exc |-> NoExc]

\* EnforcedConditions(*envs): the state after construction.
InitScope ==
  /\ heap = OrigHeap
  /\ class_attrs = OrigClassAttrs
  /\ wrapper_map = <<>>
  /\ original_map = <<>>
  /\ fns_enforcing = {}
  /\ stacks = [t \in Threads |-> <<>>]
  /\ last = [t \in Threads |-> NoOutcome]
  /\ phase = "fresh"
  /\ envs_pre = envs
  /\ heap_pre = Len(heap)

\* Any two environments over the objects that exist.
Init ==
  /\ envs \in { <<e1, e2>> : e1 \in [{"a", "b"} -> DOMAIN OrigHeap],
                             e2 \in [{"c"} -> DOMAIN OrigHeap] }
  /\ InitScope

\* The sets of objects for which the Condition Provider may fail during one
\* activation: none, or one of the objects that exist at construction.
ProviderFailures == {{}} \cup { {v} : v \in DOMAIN OrigHeap }

\* An activation is in force: its with block has not been left yet.
Installed == phase \in {"active", "active_enter_failed"}

\* with scope: ... entered (a second activation without deactivation too);
\* when a failure leaves __enter__ the with block is not run
Enter ==
  /\ Idle
  /\ \E failing \in ProviderFailures :
       LET r == __enter__([ScopeState EXCEPT !.failing = failing], envs)
       IN /\ Len(r.st.heap) <= MaxHeap
          /\ heap' = r.st.heap
          /\ class_attrs' = r.st.class_attrs
          /\ wrapper_map' = r.st.wrapper_map
          /\ original_map' = r.st.original_map
          /\ envs' = r.envs
          /\ phase' = IF ~r.st.raised THEN "active"
                      ELSE IF Installed THEN "active_enter_failed"
                      ELSE "enter_failed"
          /\ envs_pre' = IF Installed \/ r.st.raised THEN envs_pre ELSE envs
          /\ heap_pre' = IF Installed \/ r.st.raised THEN heap_pre ELSE Len(heap)
  /\ UNCHANGED <<fns_enforcing, stacks, last>>

\* What the with statement passes to __exit__ as exc_type.
ExcTypes == {"None", "Failure"}

\* the with block left, normally or by a propagating failure (one raised by
\* a wrapper or any other): the with statement calls __exit__ and raises
\* the failure again unless __exit__ returned a true value
Exit ==
  /\ Idle
  /\ Installed
  /\ \E exc_type \in ExcTypes :
       LET r == __exit__(ScopeState, envs, exc_type)
       IN /\ Len(r.st.heap) <= MaxHeap
          /\ heap' = r.st.heap
          /\ class_attrs' = r.st.class_attrs
          /\ wrapper_map' = r.st.wrapper_map
          /\ original_map' = r.st.original_map
          /\ envs' = r.envs
          /\ phase' = IF exc_type = "None" THEN "inactive"
                      ELSE IF r.ret THEN "suppressed" ELSE "failed"
  /\ UNCHANGED <<fns_enforcing, stacks, last, envs_pre, heap_pre>>

NextScope == Enter \/ Exit

Spec == Init /\ [][NextScope]_vars

-----------------------------------------------------------------------------
(* EnforcementWrapper.wrapper: one call, statement by statement.            *)
(* A frame is one in-flight call of a wrapper; its pc names the statement   *)
(* it is at.  The objects of a call (the arguments and their copies) are    *)
(* named by strings; `store` gives the top-level content of each, `args`    *)
(* is bound_args.arguments (parameter -> object) and `old` the snapshot     *)
(* (parameter -> object); `a` holds what the caller passed.  The fields     *)
(* from `invoked` on record what the call has done.                         *)

ArgVals == {0, 1}

RetVals == {0, 1}

Top(t) == stacks[t][Len(stacks[t])]

SetTop(t, f) == [stacks EXCEPT ![t][Len(stacks[t])] = f]

Conds(f) == heap[f.w].conds

\* The signature's parameters, in declaration order.
ParamOrder == <<"x", "y">>

\* The argument object passed for parameter p, and the object copy.copy
\* makes of it.
ArgObj(p) == p

CopyObj(p) == "old_" \o p

NewFrame(w, a, depth) ==
  [w |-> w, fn |-> heap[w].wraps, pc |-> "entry",
   args |-> [p \in DOMAIN a |-> ArgObj(p)],
   store |-> [o \in { ArgObj(p) : p \in DOMAIN a } |-> a[o]],
   old |-> <<>>, idx |-> 0, ret |-> -1, exc |-> NoExc,
   depth |-> depth, bypass |-> FALSE, invoked |-> FALSE, acquired |-> 0,
   evald |-> <<>>, guard0 |-> fns_enforcing, fn_exc |-> NoExc, fn_ret |-> -1,
   at_bind |-> <<>>, at_invoke |-> <<>>,
   a |-> [p \in DOMAIN a |-> ArgObj(p)], fn_args |-> <<>>, ncalls |-> 0]

\* wrapper(*a, **kw) is called: by the code of the protected region (the
\* body of the with statement, where the wrappers are installed), by a
\* condition under evaluation, or by the body of an implementation.
Call(t, w, a) ==
  /\ heap[w].wraps # 0
  /\ Len(stacks[t]) < MaxDepth
  /\ IF stacks[t] = <<>> THEN phase = "active"
     ELSE Top(t).pc \in {"pre", "post", "body"}
  /\ stacks' = [stacks EXCEPT ![t] = Append(@, NewFrame(w, a, Len(@) + 1))]
  /\ last' = IF stacks[t] = <<>> THEN [last EXCEPT ![t] = NoOutcome] ELSE last
  /\ UNCHANGED <<heap, class_attrs, envs, wrapper_map, original_map,
                 fns_enforcing, phase, envs_pre, heap_pre>>

\* CheckReentrancy without the bypass: every call is checked.
CheckReentrancy_never(t) ==
  /\ stacks[t] # <<>>
  /\ Top(t).pc = "entry"
  /\ stacks' = SetTop(t, [Top(t) EXCEPT !.pc = "bind"])
  /\ UNCHANGED <<heap, class_attrs, envs, wrapper_map, original_map,
                 fns_enforcing, last, phase, envs_pre, heap_pre>>

\* if fn in fns_enforcing: return fn(*a, **kw)
CheckReentrancy(t) ==
  /\ stacks[t] # <<>>
  /\ Top(t).pc = "entry"
  /\ stacks' = SetTop(t,
       IF Top(t).fn \in fns_enforcing
       THEN [Top(t) EXCEPT !.pc = "body", !.bypass = TRUE, !.invoked = TRUE,
                           !.fn_args = Top(t).a, !.ncalls = @ + 1]
       ELSE [Top(t) EXCEPT !.pc = "bind"])
  /\ UNCHANGED <<heap, class_attrs, envs, wrapper_map, original_map,
                 fns_enforcing, last, phase, envs_pre, heap_pre>>

\* copy.copy(argval) without the copy: the snapshot holds the argument itself.
copy_alias(store, o, fresh) == [store |-> store, ret |-> o]

\* copy.copy(argval): a new object `fresh` with the top-level content of o.
copy(store, o, fresh) ==
  [store |-> [q \in DOMAIN store \cup {fresh} |->
                IF q = fresh THEN store[o] ELSE store[q]],
   ret |-> fresh]

\* signature.bind(*a, **kw) and apply_defaults(): every parameter of the
\* signature bound to the object passed for it or to its default.
bind(conditions, f) ==
  [args |-> [p \in conditions.params |-> ArgObj(p)],
   store |-> [o \in { ArgObj(p) : p \in conditions.params } |->
                IF o \in DOMAIN f.store THEN f.store[o]
                ELSE conditions.defaults[o]]]

\* for argname, argval in bound_args.arguments.items(): old[argname] = copy.copy(argval)
RECURSIVE snapshot(_, _, _, _)
snapshot(args, store, old, names) ==
  IF names = <<>> THEN [store |-> store, old |-> old]
  ELSE LET argname == Head(names)
       IN IF argname \notin DOMAIN args
          THEN snapshot(args, store, old, Tail(names))
          ELSE LET c == copy(store, args[argname], CopyObj(argname))
               IN snapshot(args, c.store,
                    [p \in DOMAIN old \cup {argname} |->
                       IF p = argname THEN c.ret ELSE old[p]],
                    Tail(names))

\* The top-level contents the parameters have.
Contents(f) == [p \in DOMAIN f.args |-> f.store[f.args[p]]]

\* BindArguments without the check of the mutable arguments.
BindArguments_unchecked(t) ==
  /\ stacks[t] # <<>>
  /\ Top(t).pc = "bind"
  /\ LET f == Top(t)
         b == bind(Conds(f), f)
         s == snapshot(b.args, b.store, <<>>, ParamOrder)
         g == [f EXCEPT !.args = b.args, !.store = s.store, !.old = s.old]
     IN stacks' = SetTop(t,
          [g EXCEPT !.at_bind = Contents(g), !.pc = "acquire_pre"])
  /\ UNCHANGED <<heap, class_attrs, envs, wrapper_map, original_map,
                 fns_enforcing, last, phase, envs_pre, heap_pre>>

\* signature.bind, the snapshot `old`, and the check of the mutable arguments
BindArguments(t) ==
  /\ stacks[t] # <<>>
  /\ Top(t).pc = "bind"
  /\ LET f == Top(t)
         b == bind(Conds(f), f)
         s == snapshot(b.args, b.store, <<>>, ParamOrder)
         mutable_args_remaining == Conds(f).mutable_args \ DOMAIN b.args
         g == [f EXCEPT !.args = b.args, !.store = s.store, !.old = s.old]
     IN stacks' = SetTop(t,
          IF mutable_args_remaining # {}
          THEN [g EXCEPT !.at_bind = Contents(g), !.pc = "done",
                         !.exc = [kind |-> "PostconditionFailed",
                                  at |-> "mutable_args", depth |-> f.depth]]
          ELSE [g EXCEPT !.at_bind = Contents(g), !.pc = "acquire_pre"])
  /\ UNCHANGED <<heap, class_attrs, envs, wrapper_map, original_map,
                 fns_enforcing, last, phase, envs_pre, heap_pre>>

\* Acquire that leaves the guard as it is (fns_enforcing.add(fn) omitted).
Acquire_noadd(t) ==
  /\ stacks[t] # <<>>
  /\ Top(t).pc \in {"acquire_pre", "acquire_post"}
  /\ LET f == Top(t)
         ph == IF f.pc = "acquire_pre" THEN "pre" ELSE "post"
         n == IF ph = "pre" THEN Len(Conds(f).pre) ELSE Len(Conds(f).post)
     IN stacks' = SetTop(t,
          [f EXCEPT !.acquired = @ + 1, !.idx = 1,
                    !.pc = IF n = 0 THEN "release_" \o ph ELSE ph])
  /\ fns_enforcing' = fns_enforcing
  /\ UNCHANGED <<heap, class_attrs, envs, wrapper_map, original_map,
                 last, phase, envs_pre, heap_pre>>

\* currently_enforcing().__enter__: fns_enforcing.add(fn), then the first
\* condition of the phase (or the end of the with block when there is none)
Acquire(t) ==
  /\ stacks[t] # <<>>
  /\ Top(t).pc \in {"acquire_pre", "acquire_post"}
  /\ LET f == Top(t)
         ph == IF f.pc = "acquire_pre" THEN "pre" ELSE "post"
         n == IF ph = "pre" THEN Len(Conds(f).pre) ELSE Len(Conds(f).post)
     IN stacks' = SetTop(t,
          [f EXCEPT !.acquired = @ + 1, !.idx = 1,
                    !.pc = IF n = 0 THEN "release_" \o ph ELSE ph])
  /\ fns_enforcing' = fns_enforcing \cup {Top(t).fn}
  /\ UNCHANGED <<heap, class_attrs, envs, wrapper_map, original_map,
                 last, phase, envs_pre, heap_pre>>

\* Evaluated that goes on with the remaining conditions of the phase after
\* a false one and raises for it when the loop has ended.
Evaluated_deferred(f, ph, conditions, b) ==
  LET c == conditions[f.idx]
      e == IF b \/ f.exc # NoExc THEN f.exc
           ELSE [kind |-> IF ph = "pre" THEN "PreconditionFailed"
                          ELSE "PostconditionFailed",
                 at |-> c, depth |-> f.depth]
  IN [f EXCEPT !.evald = Append(@, <<c, b>>), !.idx = @ + 1, !.exc = e,
               !.pc = IF f.idx = Len(conditions) THEN "release_" \o ph ELSE ph]

\* The frame after condition number idx of phase ph evaluated to b.
Evaluated(f, ph, conditions, b) ==
  LET c == conditions[f.idx]
  IN IF b
     THEN [f EXCEPT !.evald = Append(@, <<c, TRUE>>), !.idx = @ + 1,
                    !.pc = IF f.idx = Len(conditions)
                           THEN "release_" \o ph ELSE ph]
     ELSE [f EXCEPT !.evald = Append(@, <<c, FALSE>>),
                    !.pc = "release_" \o ph,
                    !.exc = [kind |-> IF ph = "pre" THEN "PreconditionFailed"
                                      ELSE "PostconditionFailed",
                             at |-> c, depth |-> f.depth]]

\* eval(precondition.expr, args): the expression under evaluation changes
\* an argument in place (it has the argument objects in scope)
PreconditionMutates(t, p, v) ==
  /\ stacks[t] # <<>>
  /\ Top(t).pc = "pre"
  /\ p \in DOMAIN Top(t).args
  /\ v # Top(t).store[Top(t).args[p]]
  /\ stacks' = SetTop(t, [Top(t) EXCEPT !.store[Top(t).args[p]] = v])
  /\ UNCHANGED <<heap, class_attrs, envs, wrapper_map, original_map,
                 fns_enforcing, last, phase, envs_pre, heap_pre>>

\* EvalPrecondition that never raises.
EvalPrecondition_noraise(t, b) ==
  /\ stacks[t] # <<>>
  /\ Top(t).pc = "pre"
  /\ LET f == Top(t)
         g == Evaluated(f, "pre", Conds(f).pre, b)
     IN stacks' = SetTop(t,
          IF b THEN g
          ELSE [g EXCEPT !.exc = NoExc, !.idx = f.idx + 1,
                         !.pc = IF f.idx = Len(Conds(f).pre)
                                THEN "release_pre" ELSE "pre"])
  /\ UNCHANGED <<heap, class_attrs, envs, wrapper_map, original_map,
                 fns_enforcing, last, phase, envs_pre, heap_pre>>

\* if not eval(precondition.expr, args): raise PreconditionFailed(...)
EvalPrecondition(t, b) ==
  /\ stacks[t] # <<>>
  /\ Top(t).pc = "pre"
  /\ stacks' = SetTop(t, Evaluated(Top(t), "pre", Conds(Top(t)).pre, b))
  /\ UNCHANGED <<heap, class_attrs, envs, wrapper_map, original_map,
                 fns_enforcing, last, phase, envs_pre, heap_pre>>

\* EvalPostcondition that never raises.
EvalPostcondition_noraise(t, b) ==
  /\ stacks[t] # <<>>
  /\ Top(t).pc = "post"
  /\ LET f == Top(t)
         g == Evaluated(f, "post", Conds(f).post, b)
     IN stacks' = SetTop(t,
          IF b THEN g
          ELSE [g EXCEPT !.exc = NoExc, !.idx = f.idx + 1,
                         !.pc = IF f.idx = Len(Conds(f).post)
                                THEN "release_post" ELSE "post"])
  /\ UNCHANGED <<heap, class_attrs, envs, wrapper_map, original_map,
                 fns_enforcing, last, phase, envs_pre, heap_pre>>

\* if not eval(postcondition.expr, args): raise PostconditionFailed(...)
EvalPostcondition(t, b) ==
  /\ stacks[t] # <<>>
  /\ Top(t).pc = "post"
  /\ stacks' = SetTop(t, Evaluated(Top(t), "post", Conds(Top(t)).post, b))
  /\ UNCHANGED <<heap, class_attrs, envs, wrapper_map, original_map,
                 fns_enforcing, last, phase, envs_pre, heap_pre>>

\* Release with the implementation called inside the first with block: the
\* guard acquired for the preconditions is kept while fn runs.
Release_held(t) ==
  /\ stacks[t] # <<>>
  /\ Top(t).pc \in {"release_pre", "release_post"}
  /\ LET f == Top(t)
     IN /\ fns_enforcing' = IF f.exc = NoExc /\ f.pc = "release_pre"
                            THEN fns_enforcing ELSE fns_enforcing \ {f.fn}
        /\ stacks' = SetTop(t,
             [f EXCEPT !.pc = IF f.exc = NoExc /\ f.pc = "release_pre"
                              THEN "invoke" ELSE "done"])
  /\ UNCHANGED <<heap, class_attrs, envs, wrapper_map, original_map,
                 last, phase, envs_pre, heap_pre>>

\* Release that skips the removal when a failure is propagating
\* (the release written after the loop instead of in a finally clause).
Release_nofinally(t) ==
  /\ stacks[t] # <<>>
  /\ Top(t).pc \in {"release_pre", "release_post"}
  /\ LET f == Top(t)
     IN /\ fns_enforcing' = IF f.exc = NoExc THEN fns_enforcing \ {f.fn}
                            ELSE fns_enforcing
        /\ stacks' = SetTop(t,
             [f EXCEPT !.pc = IF f.exc = NoExc /\ f.pc = "release_pre"
                              THEN "invoke" ELSE "done"])
  /\ UNCHANGED <<heap, class_attrs, envs, wrapper_map, original_map,
                 last, phase, envs_pre, heap_pre>>

\* currently_enforcing().__exit__: finally: fns_enforcing.remove(fn)
\* (set.remove raises KeyError when the member is missing)
Release(t) ==
  /\ stacks[t] # <<>>
  /\ Top(t).pc \in {"release_pre", "release_post"}
  /\ LET f == Top(t)
     IN IF f.fn \in fns_enforcing
        THEN /\ fns_enforcing' = fns_enforcing \ {f.fn}
             /\ stacks' = SetTop(t,
                  [f EXCEPT !.pc = IF f.exc = NoExc /\ f.pc = "release_pre"
                                   THEN "invoke" ELSE "done"])
        ELSE /\ fns_enforcing' = fns_enforcing
             /\ stacks' = SetTop(t,
                  [f EXCEPT !.pc = "done",
                            !.exc = [kind |-> "KeyError", at |-> "remove",
                                     depth |-> f.depth]])
  /\ UNCHANGED <<heap, class_attrs, envs, wrapper_map, original_map,
                 last, phase, envs_pre, heap_pre>>

\* InvokeFn that passes the bound arguments (defaults filled in) instead
\* of what the caller passed.
InvokeFn_bound(t) ==
  /\ stacks[t] # <<>>
  /\ Top(t).pc = "invoke"
  /\ stacks' = SetTop(t, [Top(t) EXCEPT !.pc = "body", !.invoked = TRUE,
                                         !.at_invoke = Contents(Top(t)),
                                         !.fn_args = Top(t).args,
                                         !.ncalls = @ + 1])
  /\ UNCHANGED <<heap, class_attrs, envs, wrapper_map, original_map,
                 fns_enforcing, last, phase, envs_pre, heap_pre>>

\* ret = fn(*a, **kw): the implementation starts to run
InvokeFn(t) ==
  /\ stacks[t] # <<>>
  /\ Top(t).pc = "invoke"
  /\ stacks' = SetTop(t, [Top(t) EXCEPT !.pc = "body", !.invoked = TRUE,
                                         !.at_invoke = Contents(Top(t)),
                                         !.fn_args = Top(t).a,
                                         !.ncalls = @ + 1])
  /\ UNCHANGED <<heap, class_attrs, envs, wrapper_map, original_map,
                 fns_enforcing, last, phase, envs_pre, heap_pre>>

\* the implementation changes an argument in place
FnMutates(t, p, v) ==
  /\ stacks[t] # <<>>
  /\ Top(t).pc = "body"
  /\ p \in DOMAIN Top(t).args
  /\ v # Top(t).store[Top(t).args[p]]
  /\ stacks' = SetTop(t, [Top(t) EXCEPT !.store[Top(t).args[p]] = v])
  /\ UNCHANGED <<heap, class_attrs, envs, wrapper_map, original_map,
                 fns_enforcing, last, phase, envs_pre, heap_pre>>

\* the implementation returns v
FnReturns(t, v) ==
  /\ stacks[t] # <<>>
  /\ Top(t).pc = "body"
  /\ stacks' = SetTop(t,
       [Top(t) EXCEPT !.ret = v, !.fn_ret = v,
                      !.pc = IF Top(t).bypass THEN "done" ELSE "acquire_post"])
  /\ UNCHANGED <<heap, class_attrs, envs, wrapper_map, original_map,
                 fns_enforcing, last, phase, envs_pre, heap_pre>>

\* FnFailed with the postconditions checked on the way out as well.
FnFailed_checked(f, e) ==
  [f EXCEPT !.exc = e, !.fn_exc = e, !.pc = "acquire_post"]

\* The frame after its implementation failed with e: the failure leaves the
\* wrapper at once.
FnFailed(f, e) == [f EXCEPT !.exc = e, !.fn_exc = e, !.pc = "done"]

\* the implementation raises
FnRaises(t) ==
  /\ stacks[t] # <<>>
  /\ Top(t).pc = "body"
  /\ stacks' = SetTop(t,
       FnFailed(Top(t), [kind |-> "ImplError", at |-> "body",
                         depth |-> Top(t).depth]))
  /\ UNCHANGED <<heap, class_attrs, envs, wrapper_map, original_map,
                 fns_enforcing, last, phase, envs_pre, heap_pre>>

\* The caller's frame once the call it made has ended with failure e:
\* the failure leaves the condition under evaluation (through the finally
\* clause of the with block) or the implementation's body.
Propagate(caller, e) ==
  IF caller.pc = "body" THEN FnFailed(caller, e)
  ELSE [caller EXCEPT !.exc = e, !.pc = "release_" \o caller.pc]

\* return ret, or the failure leaves the wrapper
Return(t) ==
  /\ stacks[t] # <<>>
  /\ Top(t).pc = "done"
  /\ LET f == Top(t)
         n == Len(stacks[t])
         rest == SubSeq(stacks[t], 1, n - 1)
     IN IF n = 1
        THEN /\ stacks' = [stacks EXCEPT ![t] = <<>>]
             /\ last' = [last EXCEPT ![t] =
                  [kind |-> IF f.exc = NoExc THEN "return" ELSE "raise",
                   w |-> f.w, ret |-> IF f.exc = NoExc THEN f.ret ELSE -1,
                   exc |-> f.exc]]
        ELSE /\ stacks' = [stacks EXCEPT ![t] =
                  IF f.exc = NoExc THEN rest
                  ELSE [rest EXCEPT ![n - 1] = Propagate(rest[n - 1], f.exc)]]
             /\ last' = last
  /\ UNCHANGED <<heap, class_attrs, envs, wrapper_map, original_map,
                 fns_enforcing, phase, envs_pre, heap_pre>>

\* The scope built over two environments that bind half, push and bad.
InitCall ==
  /\ envs = << [k \in {"a", "b"} |-> IF k = "a" THEN 1 ELSE 2],
               [k \in {"c"} |-> 4] >>
  /\ InitScope

Step(t) ==
  \/ \E w \in DOMAIN heap : \E a \in [{"x"} -> ArgVals] : Call(t, w, a)
  \/ CheckReentrancy(t)
  \/ BindArguments(t)
  \/ Acquire(t)
  \/ \E b \in BOOLEAN : EvalPrecondition(t, b)
  \/ \E v \in ArgVals : PreconditionMutates(t, "x", v)
  \/ Release(t)
  \/ InvokeFn(t)
  \/ \E v \in ArgVals : FnMutates(t, "x", v)
  \/ \E v \in RetVals : FnReturns(t, v)
  \/ FnRaises(t)
  \/ \E b \in BOOLEAN : EvalPostcondition(t, b)
  \/ Return(t)

NextCall == Enter \/ Exit \/ Step("t1")

\* One thread calling the wrappers the scope installed.
SpecCall == InitCall /\ [][NextCall]_vars

-----------------------------------------------------------------------------
(* Properties of the scope                                                  *)

\* deactivate() has run and the scope has not been activated again.
Deactivated == phase \in {"inactive", "failed", "suppressed"}

\* A plain callable (no dispatcher, no wrapper) without conditions.
PlainNoConds(v) ==
  /\ heap[v].kind = "function"
  /\ heap[v].registry = <<>>
  /\ heap[v].wraps = 0
  /\ ~has_any(heap[v].conds)

\* A plain callable with at least one condition.
PlainWithConds(v) ==
  /\ heap[v].kind = "function"
  /\ heap[v].registry = <<>>
  /\ heap[v].wraps = 0
  /\ has_any(heap[v].conds)

\* The value carries at least one condition: a plain callable with
\* conditions, a dispatcher one of whose implementations has conditions, a
\* class one of whose methods has conditions.
CarriesConditions(v) ==
  \/ PlainWithConds(v)
  \/ \E j \in DOMAIN heap[v].registry : PlainWithConds(heap[v].registry[j][2])
  \/ /\ is_type(heap, v)
     /\ class_has_any(get_class_conditions(heap, class_attrs, v))

\* v is a contract wrapper that is installed: bound in an environment, an
\* implementation of a dispatcher bound in an environment, or a method of a
\* class.
IsInstalledWrapper(v) ==
  /\ heap[v].wraps # 0
  /\ \/ \E i \in DOMAIN envs : \E k \in DOMAIN envs[i] :
          \/ envs[i][k] = v
          \/ \E j \in DOMAIN heap[envs[i][k]].registry :
                heap[envs[i][k]].registry[j][2] = v
     \/ \E c \in DOMAIN class_attrs : \E n \in DOMAIN class_attrs[c] :
          class_attrs[c][n] = v

\* C1: after activate() followed by deactivate(), every key of every
\* environment is bound to the very same object as before activate().
C1_RoundTripRestoresIdentity ==
  Deactivated => envs = envs_pre

\* C7: the registry holds exactly one entry per currently installed wrapper
\* and nothing else: is_enforcement_wrapper(v) is true if and only if v is a
\* contract wrapper of this scope that is currently installed.
C7_RegistryIsTheInstalledWrappers ==
  \A v \in DOMAIN heap :
    is_enforcement_wrapper(ScopeState, v) <=> IsInstalledWrapper(v)

\* C8: wrapper identity is stable and wrapping is idempotent: there is at
\* most one wrapper object per original callable, ever (the heap only grows,
\* so a later cycle or a second activation reuses it); no wrapper wraps a
\* wrapper; wrapping an original again returns its cached wrapper and
\* wrapping a wrapper returns that wrapper, both without changing the
\* scope; and while the scope is active every binding of a plain callable
\* with conditions holds that one wrapper.
C8_WrapperIdentityStable ==
  /\ \A w1, w2 \in DOMAIN heap :
       (heap[w1].wraps # 0 /\ heap[w1].wraps = heap[w2].wraps) => w1 = w2
  /\ \A w \in DOMAIN heap :
       heap[w].wraps # 0 =>
         /\ heap[heap[w].wraps].wraps = 0
         /\ _wrap_fn(ScopeState, w, <<>>) = [st |-> ScopeState, ret |-> w]
  /\ \A fn \in DOMAIN wrapper_map :
       /\ wrapper_map[fn] = fn \/ heap[wrapper_map[fn]].wraps = fn
       /\ _wrap_fn(ScopeState, fn, <<>>) =
            [st |-> ScopeState, ret |-> wrapper_map[fn]]
  /\ phase = "active" =>
       \A i \in DOMAIN envs : \A k \in DOMAIN envs[i] :
         PlainWithConds(envs_pre[i][k]) =>
           /\ envs_pre[i][k] \in DOMAIN wrapper_map
           /\ envs[i][k] = wrapper_map[envs_pre[i][k]]
           /\ heap[envs[i][k]].wraps = envs_pre[i][k]

\* C8 witness: a later activation (the wrapper existed before it) has bound
\* the same wrapper at two keys of one environment and in the other one.
C8_Witness ==
  /\ phase = "active"
  /\ \E i \in DOMAIN envs : \E k1, k2 \in DOMAIN envs[i] :
     \E i2 \in DOMAIN envs : \E k3 \in DOMAIN envs[i2] :
       /\ k1 # k2
       /\ i2 # i
       /\ envs[i][k1] = envs[i][k2]
       /\ envs[i][k1] = envs[i2][k3]
       /\ heap[envs[i][k1]].wraps # 0
       /\ envs[i][k1] <= heap_pre

\* C9: for a plain callable without conditions the wrap procedure returns the
\* identical callable and creates no object, no wrapper of it exists, and
\* every binding of it is left as it was.
C9_NoConditionsPassThrough ==
  \A fn \in DOMAIN heap :
    PlainNoConds(fn) =>
      /\ _wrap_fn(ScopeState, fn, <<>>).ret = fn
      /\ _wrap_fn(ScopeState, fn, <<>>).st.heap = heap
      /\ \A w \in DOMAIN heap : heap[w].wraps # fn
      /\ \A i \in DOMAIN envs : \A k \in DOMAIN envs[i] :
           envs_pre[i][k] = fn => envs[i][k] = fn

\* C9 witness: the scope is active and the wrap procedure has processed a
\* plain callable without conditions that an environment binds.
C9_Witness ==
  /\ phase = "active"
  /\ \E fn \in DOMAIN heap :
       /\ PlainNoConds(fn)
       /\ fn \in DOMAIN wrapper_map
       /\ \E i \in DOMAIN envs : \E k \in DOMAIN envs[i] : envs[i][k] = fn

\* C10: activate() never adds or removes a key, and rebinds a key only when
\* the value bound to it carries at least one condition.
C10_ActivationIsTransparent ==
  phase = "active" =>
    \A i \in DOMAIN envs :
      /\ DOMAIN envs[i] = DOMAIN envs_pre[i]
      /\ \A k \in DOMAIN envs[i] :
           envs[i][k] # envs_pre[i][k] => CarriesConditions(envs_pre[i][k])

-----------------------------------------------------------------------------
(* Properties of the wrapper call                                           *)

Range(s) == { s[j] : j \in DOMAIN s }

\* A precondition (postcondition) of the call evaluated false.
PreFalse(f) ==
  \E j \in DOMAIN f.evald :
    f.evald[j][1] \in Range(Conds(f).pre) /\ ~f.evald[j][2]

PostFalse(f) ==
  \E j \in DOMAIN f.evald :
    f.evald[j][1] \in Range(Conds(f).post) /\ ~f.evald[j][2]

PostEvaluated(f) ==
  \E j \in DOMAIN f.evald : f.evald[j][1] \in Range(Conds(f).post)

\* The call is inside an evaluation phase: it has added fn to the guard and
\* not yet removed it.
InPhase(f) == f.pc \in {"pre", "release_pre", "post", "release_post"}

Frames == { <<t, i>> : t \in Threads, i \in 1..MaxDepth + 1 }

Live == { x \in Frames : x[2] <= Len(stacks[x[1]]) }

FrameAt(x) == stacks[x[1]][x[2]]

\* C2: in a non-bypassed call, once a precondition has evaluated false the
\* call is ending with a precondition failure and the implementation has
\* not been invoked.
C2_PreconditionFailureSkipsBody ==
  \A x \in Live :
    LET f == FrameAt(x)
    IN (~f.bypass /\ PreFalse(f)) =>
         /\ ~f.invoked
         /\ f.fn_ret = -1
         /\ f.pc \in {"release_pre", "done"}
         /\ f.exc.kind = "PreconditionFailed"

\* C2 witness: a call whose second precondition was false is about to leave
\* the wrapper.
C2_Witness ==
  \E x \in Live :
    /\ FrameAt(x).pc = "done"
    /\ PreFalse(FrameAt(x))
    /\ Len(FrameAt(x).evald) = 2

\* C3: in a non-bypassed call whose implementation returned, once a
\* postcondition has evaluated false the call is ending with a
\* postcondition failure, and what the caller gets is the failure, not the
\* value.
C3_PostconditionFailureRaises ==
  /\ \A x \in Live :
       LET f == FrameAt(x)
       IN (~f.bypass /\ PostFalse(f)) =>
            /\ f.fn_ret \in RetVals
            /\ f.pc \in {"release_post", "done"}
            /\ f.exc.kind = "PostconditionFailed"
  /\ \A t \in Threads :
       last[t].exc.kind = "PostconditionFailed" =>
         last[t].kind = "raise" /\ last[t].ret = -1

\* C3 witness: the outermost call ended with the failure of postcondition q1
\* although its implementation had returned.
C3_Witness ==
  /\ stacks["t1"] = <<>>
  /\ last["t1"].kind = "raise"
  /\ last["t1"].exc = [kind |-> "PostconditionFailed", at |-> "q1", depth |-> 1]

\* C4: once the implementation has raised, the call leaves the wrapper with
\* that same failure, no postcondition is evaluated and the guard is not
\* acquired again; the caller receives that failure.
C4_ImplementationFailurePropagates ==
  /\ [](\A x \in Live :
          LET f == FrameAt(x)
          IN f.fn_exc # NoExc =>
               /\ f.pc = "done"
               /\ f.exc = f.fn_exc
               /\ ~PostEvaluated(f)
               /\ f.acquired = IF f.bypass THEN 0 ELSE 1)
  /\ [][\A t \in Threads :
          (/\ stacks[t] # <<>>
           /\ Top(t).fn_exc # NoExc
           /\ Len(stacks'[t]) < Len(stacks[t]))
          => IF Len(stacks[t]) = 1
             THEN last'[t].kind = "raise" /\ last'[t].exc = Top(t).fn_exc
             ELSE stacks'[t][Len(stacks'[t])].exc = Top(t).fn_exc]_vars

\* C4 witness: a non-bypassed call is leaving the wrapper with the failure
\* its implementation raised.
C4_Witness ==
  \E x \in Live :
    /\ FrameAt(x).pc = "done"
    /\ ~FrameAt(x).bypass
    /\ FrameAt(x).fn_exc.kind = "ImplError"

\* C5: a call is bypassed exactly when its callable was in the guard; a
\* bypassed call runs the implementation, evaluates no condition, never
\* acquires the guard, leaves the wrapper with the guard as it found it and
\* with the implementation's own result; no callable has more than one call
\* inside an evaluation phase.
C5_ReentrancyBypass ==
  /\ \A x \in Live :
       LET f == FrameAt(x)
       IN /\ f.pc # "entry" => (f.bypass <=> f.fn \in f.guard0)
          /\ f.bypass =>
               /\ f.invoked
               /\ f.evald = <<>>
               /\ f.acquired = 0
               /\ f.pc \in {"body", "done"}
               /\ f.pc = "done" =>
                    /\ fns_enforcing = f.guard0
                    /\ f.exc = f.fn_exc
                    /\ f.ret = f.fn_ret
  /\ \A x, y \in Live :
       (InPhase(FrameAt(x)) /\ InPhase(FrameAt(y))
          /\ FrameAt(x).fn = FrameAt(y).fn) => x = y

\* C5 witness: a postcondition of a callable called the callable again;
\* that call was bypassed and has returned.
C5_Witness ==
  /\ Len(stacks["t1"]) = 2
  /\ stacks["t1"][1].pc = "post"
  /\ stacks["t1"][2].fn = stacks["t1"][1].fn
  /\ stacks["t1"][2].bypass
  /\ stacks["t1"][2].pc = "done"
  /\ stacks["t1"][2].ret \in RetVals

\* C6: a callable is in the guard exactly while one call of it is inside an
\* evaluation phase; a call leaves the wrapper with the guard as it was when
\* the call was made; with no call in flight the guard is empty.
C6_GuardInvariant ==
  /\ \A fn \in fns_enforcing :
       Cardinality({ x \in Live : InPhase(FrameAt(x)) /\ FrameAt(x).fn = fn }) = 1
  /\ \A x \in Live :
       /\ InPhase(FrameAt(x)) => FrameAt(x).fn \in fns_enforcing
       /\ FrameAt(x).pc = "done" => fns_enforcing = FrameAt(x).guard0
  /\ Idle => fns_enforcing = {}

\* C6 witness: an outermost call has ended with a precondition failure.
C6_Witness ==
  /\ Idle
  /\ last["t1"].kind = "raise"
  /\ last["t1"].exc.kind = "PreconditionFailed"

\* The call declares a mutable argument that is not a bound parameter.
UnknownMutableArg(f) == Conds(f).mutable_args \ Conds(f).params # {}

\* C11: a call whose Conditions declare a mutable argument that is not among
\* the bound parameters ends with a postcondition failure raised by the
\* check of the mutable arguments: no precondition has been evaluated, the
\* guard was never acquired and the implementation was not invoked; the
\* caller of an outermost such call receives that failure.
C11_UnknownMutableArgFails ==
  /\ \A x \in Live :
       LET f == FrameAt(x)
       IN (UnknownMutableArg(f) /\ f.pc \notin {"entry", "bind"}) =>
            /\ f.pc = "done"
            /\ f.exc = [kind |-> "PostconditionFailed", at |-> "mutable_args",
                        depth |-> f.depth]
            /\ f.evald = <<>>
            /\ f.acquired = 0
            /\ ~f.invoked
            /\ ~f.bypass
  /\ \A t \in Threads :
       (last[t].kind # "none"
          /\ heap[last[t].w].conds.mutable_args \ heap[last[t].w].conds.params # {})
       => /\ last[t].kind = "raise"
          /\ last[t].exc.kind = "PostconditionFailed"
          /\ last[t].exc.at = "mutable_args"

\* C11 witness: a call of bad (precondition p3, mutable argument zz), made
\* by a condition or by the implementation of another call, is leaving the
\* wrapper with the failure.
C11_Witness ==
  \E x \in Live :
    /\ UnknownMutableArg(FrameAt(x))
    /\ FrameAt(x).pc = "done"
    /\ FrameAt(x).depth = 2
    /\ Conds(FrameAt(x)).pre # <<>>

\* The snapshot covers every bound parameter (declared mutable or not,
\* defaults included), each by a copy that is not the argument itself, and
\* the ordinary bindings are the argument objects the caller passed.
SnapshotCovers(f) ==
  /\ DOMAIN f.args = Conds(f).params
  /\ DOMAIN f.old = Conds(f).params
  /\ \A p \in DOMAIN f.old :
       /\ f.old[p] # f.args[p]
       /\ f.args[p] = ArgObj(p)

\* C12 as stated: in every postcondition evaluation the snapshot covers
\* every bound parameter and holds, for each, the value the parameter had
\* immediately before the implementation was invoked.
C12_SnapshotIsValueAtInvocation ==
  \A x \in Live :
    LET f == FrameAt(x)
    IN f.pc = "post" =>
         /\ SnapshotCovers(f)
         /\ \A p \in DOMAIN f.old : f.store[f.old[p]] = f.at_invoke[p]

\* C12 amended: in every postcondition evaluation the snapshot covers every
\* bound parameter and holds, for each, the value the parameter had when the
\* arguments were bound, before any precondition was evaluated; in-place
\* changes of the argument made afterwards (by the implementation or by a
\* precondition) do not reach it, while the ordinary bindings show them.
C12_SnapshotIsValueAtBinding ==
  \A x \in Live :
    LET f == FrameAt(x)
    IN f.pc = "post" =>
         /\ SnapshotCovers(f)
         /\ \A p \in DOMAIN f.old : f.store[f.old[p]] = f.at_bind[p]

\* C12 witness: a postcondition of half (x is not declared mutable, y has a
\* default) is under evaluation after the implementation changed x in
\* place; the snapshot still holds the value x had when it was invoked.
C12_Witness ==
  \E x \in Live :
    LET f == FrameAt(x)
    IN /\ f.pc = "post"
       /\ Conds(f).mutable_args = {}
       /\ "y" \in DOMAIN f.old
       /\ f.at_invoke = f.at_bind
       /\ f.store[f.args["x"]] # f.at_invoke["x"]
       /\ f.store[f.old["x"]] = f.at_invoke["x"]

-----------------------------------------------------------------------------
(* Properties of classes and type-dispatching callables                     *)

\* The classes bound in an environment when the scope was activated.
BoundClasses ==
  { c \in DOMAIN heap :
      /\ is_type(heap, c)
      /\ \E i \in DOMAIN envs_pre : \E k \in DOMAIN envs_pre[i] :
           envs_pre[i][k] = c }

\* C13: while the scope is active, every method of a bound class whose name
\* has Conditions is, on the class object itself, the contract wrapper of
\* the original method; after deactivate() every method attribute is the
\* original method object again.
C13_ClassMethodsPatched ==
  /\ phase = "active" =>
       \A c \in BoundClasses : \A n \in DOMAIN OrigClassAttrs[c] :
         has_any(get_fn_conditions(heap, OrigClassAttrs[c][n])) =>
           heap[class_attrs[c][n]].wraps = OrigClassAttrs[c][n]
  /\ Deactivated => class_attrs = OrigClassAttrs

\* The types of a dispatch table, in order.
RegisteredTypes(reg) == [j \in DOMAIN reg |-> reg[j][1]]

\* The (environment, key) pairs that bound a type-dispatching callable when
\* the scope was activated.
DispatcherBindings ==
  { b \in { <<i, k>> : i \in DOMAIN envs_pre, k \in {"a", "b", "c"} } :
      /\ b[2] \in DOMAIN envs_pre[b[1]]
      /\ is_singledispatcher(heap, envs_pre[b[1]][b[2]]) }

\* C14: while the scope is active, the table bound for a type-dispatching
\* callable has the types of the original's table in the same order (the
\* default first) and maps each type to what the wrap procedure gives for
\* the original's implementation of that type; so every argument type runs
\* the implementation it ran before or the wrapper of it, and it runs a
\* wrapper exactly when that implementation has conditions.  After
\* deactivate() the bound table is the original's table.
C14_DispatchTablePreserved ==
  \A b \in DispatcherBindings :
    LET reg0 == heap[envs_pre[b[1]][b[2]]].registry
        reg == heap[envs[b[1]][b[2]]].registry
    IN /\ phase = "active" =>
            /\ RegisteredTypes(reg) = RegisteredTypes(reg0)
            /\ \A j \in DOMAIN reg0 :
                 _wrap_fn(ScopeState, reg0[j][2], <<>>) =
                   [st |-> ScopeState, ret |-> reg[j][2]]
            /\ \A typ \in ArgTypes :
                 LET impl0 == dispatch(reg0, typ)
                     impl == dispatch(reg, typ)
                 IN /\ impl = impl0 \/ heap[impl].wraps = impl0
                    /\ heap[impl].wraps # 0 <=>
                         has_any(get_fn_conditions(heap, impl0))
       /\ Deactivated => reg = reg0

\* C14 witness: a later activation has bound, for the dispatcher whose int
\* implementation is half, a table that runs the wrapper of half for int
\* and plain itself for every other type.
C14_Witness ==
  /\ phase = "active"
  /\ heap_pre > Len(OrigHeap)
  /\ \E b \in DispatcherBindings :
       LET reg == heap[envs[b[1]][b[2]]].registry
       IN /\ heap[dispatch(reg, "int")].wraps = 1
          /\ dispatch(reg, "str") = 3
          /\ dispatch(reg, "list") = 3

-----------------------------------------------------------------------------
(* Further properties of the wrapper call                                   *)

\* Every precondition and every postcondition of the call has been
\* evaluated, in the declared order, and each was true.
AllConditionsTrue(f) ==
  f.evald = [j \in 1..(Len(Conds(f).pre) + Len(Conds(f).post)) |->
               <<(Conds(f).pre \o Conds(f).post)[j], TRUE>>]

\* C15: a non-bypassed call all of whose conditions evaluated true and
\* whose implementation returned ends without failure; and every call that
\* ends without failure has invoked the implementation (the hook's result
\* for the original) exactly once, with exactly what the caller passed, and
\* its value is the value that invocation returned; the caller of an
\* outermost call receives that value.
C15_WrappedCallEqualsDirectCall ==
  /\ [](\A x \in Live :
          LET f == FrameAt(x)
          IN /\ (~f.bypass /\ AllConditionsTrue(f)) =>
                  /\ f.fn_ret \in RetVals
                  /\ f.pc \in {"release_post", "done"}
                  /\ f.exc = NoExc
             /\ (f.pc = "done" /\ f.exc = NoExc) =>
                  /\ f.ncalls = 1
                  /\ f.fn_args = f.a
                  /\ f.fn = interceptor(original_map[IdentityWrapper(f.w)])
                  /\ f.ret = f.fn_ret
                  /\ f.fn_ret \in RetVals
                  /\ f.bypass \/ AllConditionsTrue(f))
  /\ [][\A t \in Threads :
          (/\ Len(stacks[t]) = 1
           /\ stacks'[t] = <<>>
           /\ Top(t).exc = NoExc)
          => /\ last'[t].kind = "return"
             /\ last'[t].ret = Top(t).fn_ret]_vars

\* C15 witness: an outermost call of half, both preconditions and the
\* postcondition true, has returned 1 to its caller.
C15_Witness ==
  /\ stacks["t1"] = <<>>
  /\ last["t1"].kind = "return"
  /\ last["t1"].ret = 1
  /\ heap[last["t1"].w].wraps = 1

-----------------------------------------------------------------------------
(* Properties of activation and deactivation under failure                  *)

\* C16: when a failure left the with block, deactivate() has put every key
\* of every environment back to the object it was bound to before
\* activate() and every class method back to the original method, and the
\* failure has not been swallowed.
C16_ExitOnFailureRestores ==
  /\ phase # "suppressed"
  /\ phase = "failed" =>
       /\ envs = envs_pre
       /\ class_attrs = OrigClassAttrs

\* The call was made outside every evaluation phase: no call below it on
\* its thread is evaluating conditions.
OutsidePhases(x) ==
  \A i \in 1..(x[2] - 1) : ~InPhase(stacks[x[1]][i])

\* C17: while the implementation runs for a non-bypassed call made outside
\* every evaluation phase, its callable is not in the guard unless a call
\* above it is evaluating conditions; a call of the same callable made by
\* that implementation is not bypassed: it evaluates the conditions again,
\* and it ends without failure only with every condition evaluated true.
C17_RecursionIsChecked ==
  \A x \in Live :
    LET f == FrameAt(x)
        t == x[1]
    IN (f.pc = "body" /\ ~f.bypass /\ OutsidePhases(x)) =>
         /\ x[2] = Len(stacks[t]) => f.fn \notin fns_enforcing
         /\ x[2] < Len(stacks[t]) =>
              LET g == stacks[t][x[2] + 1]
              IN (g.fn = f.fn /\ g.pc # "entry") =>
                   /\ ~g.bypass
                   /\ g.guard0 = {}
                   /\ g.pc \notin {"bind", "acquire_pre"} =>
                        g.acquired >= 1 \/ UnknownMutableArg(g)
                   /\ (g.pc = "done" /\ g.exc = NoExc) => AllConditionsTrue(g)

\* C17 witness: the implementation of half, running for an outermost call,
\* called half again; that call evaluated both preconditions and the
\* postcondition and is returning.
C17_Witness ==
  /\ Len(stacks["t1"]) = 2
  /\ stacks["t1"][1].pc = "body"
  /\ ~stacks["t1"][1].bypass
  /\ stacks["t1"][2].fn = stacks["t1"][1].fn
  /\ stacks["t1"][2].pc = "done"
  /\ stacks["t1"][2].evald = << <<"p1", TRUE>>, <<"p2", TRUE>>, <<"q1", TRUE>> >>

\* C18: in a non-bypassed call the conditions evaluated so far are an
\* initial part of the declared preconditions followed by the declared
\* postconditions, in that order; only the last one evaluated can be false,
\* and then the call is ending with the failure of its phase that names
\* that condition; no postcondition is evaluated before the implementation
\* has returned, and the implementation is invoked only after every
\* precondition has been evaluated.
C18_FirstFalseConditionStops ==
  \A x \in Live :
    LET f == FrameAt(x)
        declared == Conds(f).pre \o Conds(f).post
        n == Len(f.evald)
    IN ~f.bypass =>
         /\ n <= Len(declared)
         /\ \A j \in 1..n : f.evald[j][1] = declared[j]
         /\ \A j \in 1..(n - 1) : f.evald[j][2]
         /\ (n > 0 /\ ~f.evald[n][2]) =>
              /\ f.pc \in {"release_pre", "release_post", "done"}
              /\ f.exc.at = declared[n]
              /\ f.exc.kind = IF n <= Len(Conds(f).pre)
                              THEN "PreconditionFailed"
                              ELSE "PostconditionFailed"
         /\ f.invoked => n >= Len(Conds(f).pre)
         /\ f.fn_ret = -1 => n <= Len(Conds(f).pre)
         /\ (f.pc \in {"pre", "post"} /\ n > 0) => f.evald[n][2]

\* C18 witness: the first precondition of half was false; the call is
\* leaving with the failure that names it and the second precondition has
\* not been evaluated.
C18_Witness ==
  \E x \in Live :
    /\ FrameAt(x).pc = "done"
    /\ FrameAt(x).evald = << <<"p1", FALSE>> >>
    /\ FrameAt(x).exc.at = "p1"
    /\ Len(Conds(FrameAt(x)).pre) = 2

\* A failure has left activate().
EnterFailed == phase \in {"enter_failed", "active_enter_failed"}

\* C19: a step in which a failure of the Condition Provider leaves
\* activate() changes no environment: every key is bound as it was before
\* the call, although wrappers computed before the failure stay cached.
C19_ActivationFailureLeavesEnvs ==
  [][EnterFailed' => envs' = envs]_vars

\* C19 witness: the provider failed during the first activation after the
\* wrapper of an earlier binding had been computed (it is in the cache);
\* that binding and all others are as they were at construction.
C19_Witness ==
  /\ phase = "enter_failed"
  /\ envs = envs_pre
  /\ heap_pre = Len(OrigHeap)
  /\ \E i \in DOMAIN envs : \E k \in DOMAIN envs[i] :
       /\ PlainWithConds(envs[i][k])
       /\ envs[i][k] \in DOMAIN wrapper_map
       /\ heap[wrapper_map[envs[i][k]]].wraps = envs[i][k]

-----------------------------------------------------------------------------
(* Several threads calling the wrappers of one scope                        *)

\* The scope built over two environments that bind half and plain.
InitThreads ==
  /\ envs = << [k \in {"a", "b"} |-> IF k = "a" THEN 1 ELSE 3],
               [k \in {"c"} |-> 3] >>
  /\ InitScope

\* One statement of thread t: the code of the protected region calls a
\* wrapper (with the argument 0, the implementation making no call of its
\* own and returning 0), or the call the thread is in goes one statement on.
\* fns_enforcing is the one set of the scope: every thread reads and writes it.
StepThread(t) ==
  \/ stacks[t] = <<>> /\ \E w \in DOMAIN heap : Call(t, w, [p \in {"x"} |-> 0])
  \/ CheckReentrancy(t)
  \/ BindArguments(t)
  \/ Acquire(t)
  \/ \E b \in BOOLEAN : EvalPrecondition(t, b)
  \/ Release(t)
  \/ InvokeFn(t)
  \/ FnReturns(t, 0)
  \/ \E b \in BOOLEAN : EvalPostcondition(t, b)
  \/ Return(t)

NextThreads == Enter \/ Exit \/ \E t \in Threads : StepThread(t)

\* The threads of the program interleaved statement by statement.
SpecThreads == InitThreads /\ [][NextThreads]_vars

\* The threads that have called a wrapper.
Callers == { t \in Threads : stacks[t] # <<>> \/ last[t] # NoOutcome }

\* Frame number i of thread t took the bypass although no call below it on
\* its own thread is evaluating the conditions of the same callable.
ForeignBypass(t, i) ==
  /\ stacks[t][i].bypass
  /\ ~\E j \in 1..(i - 1) :
        /\ stacks[t][j].fn = stacks[t][i].fn
        /\ stacks[t][j].pc \in {"pre", "post"}

\* A guard release on thread t found the member already removed.
MissingAtRelease(t) ==
  \/ last[t].exc.kind = "KeyError"
  \/ \E i \in DOMAIN stacks[t] : stacks[t][i].exc.kind = "KeyError"

\* C20: as long as one thread only has called wrappers of the scope, no call
\* takes the bypass because of a guard entry that is not its own thread's,
\* and no guard release finds the member already removed.
C20_SingleThreadIsSafe ==
  Cardinality(Callers) <= 1 =>
    \A t \in Threads :
      /\ ~MissingAtRelease(t)
      /\ \A i \in DOMAIN stacks[t] : ~ForeignBypass(t, i)

\* Threads sharing the scope and calling the same wrapper: the release of one
\* thread's call found the member removed by another thread (the KeyError
\* left its call), and a call on one thread has returned without evaluating
\* any condition because another thread is evaluating the postconditions.
C20_Witness ==
  \E t, u, v \in Threads :
    /\ last[u].kind = "raise"
    /\ last[u].exc.kind = "KeyError"
    /\ stacks[u] = <<>>
    /\ Len(stacks[t]) = 1
    /\ stacks[t][1].pc = "post"
    /\ Len(stacks[v]) = 1
    /\ ForeignBypass(v, 1)
    /\ stacks[v][1].fn = stacks[t][1].fn
    /\ has_any(Conds(stacks[v][1]))
    /\ stacks[v][1].pc = "done"
    /\ stacks[v][1].evald = <<>>
    /\ stacks[v][1].exc = NoExc

====
